---- MODULE Spec2Model ----
(***************************************************************************)
(* Model of the DEXA dashboard's body-part page (pages/body_part_trend.py):*)
(* the update_charts callback with its toggle step, the style encoding of  *)
(* the selection, the record filter and the stats card with format_ratio;  *)
(* of the benchmark page (pages/dexa_dashboard_saved.py) and the overview  *)
(* page (pages/overview.py) with their one callback each; and of the three *)
(* loaders.  Each page has a specification of its own over the same        *)
(* variables.                                                              *)
(*                                                                         *)
(* Conventions.  Python lists are sequences; list indices are 1-based here *)
(* (Python's index i is i+1 in the model) and 0 stands for "next() found   *)
(* nothing" (StopIteration).  A button style dict is modelled by the one   *)
(* key the callback reads, its backgroundColor; None is a missing style.   *)
(* A scan date is a day number.  Masses are whole grams.                   *)
(***************************************************************************)
EXTENDS Integers, Sequences, FiniteSets, TLC

VARIABLES
    df,        \* the module-level table(s) of the page, as loaded: sequences of rows
    styles,    \* per session: the style of every body-part button, as the browser holds it
    patient,   \* per session: the value of the patient dropdown
    called,    \* per session: whether the initial call of the callback has happened
    rendered,  \* per session: whether some invocation has returned its outputs to the page
    result     \* the last invocation of a callback or loader: its inputs, locals and outcome

vars == <<df, styles, patient, called, rendered, result>>

-----------------------------------------------------------------------------
(* Bounds of the model *)

\* masses 1..MaxGrams are enumerated for the single-row datasets
MaxGrams == 10

-----------------------------------------------------------------------------
(* Static configuration *)

BODY_PART_GROUPS ==
    << [group |-> "Arms",    parts |-> <<"Left Arm", "Right Arm">>],
       [group |-> "Legs",    parts |-> <<"Left Leg", "Right Leg">>],
       [group |-> "Total",   parts |-> <<"Total">>],
       [group |-> "Regions", parts |-> <<"Android", "Gynoid">>] >>

\* the buttons in layout order (the groups' parts, group after group), as
\* ctx.inputs_list[0] lists them
button_ids ==
    BODY_PART_GROUPS[1].parts \o BODY_PART_GROUPS[2].parts
        \o BODY_PART_GROUPS[3].parts \o BODY_PART_GROUPS[4].parts

Universe == {button_ids[i] : i \in DOMAIN button_ids}

None == "None"
selected_style == "#3498db"
unselected_style == "white"

\* create_button: every button starts with the unselected style
create_button(part) == unselected_style

-----------------------------------------------------------------------------
(* The triggering property, ctx.triggered[0]['prop_id'].                   *)
(* "." is the initial call.  "patient-dropdown.value" is a change of the   *)
(* dropdown.  A click on a button is '{"index":<part>,"type":...}.n_clicks'*)
(* and is written here as its part name.                                   *)

InitialCall == "."
DropdownChange == "patient-dropdown.value"

\* a body part no button exists for
UnknownParts == {"Trunk"}

\* eval(triggered_id.split('.')[0]): the id dict of a button, whose 'index'
\* is the part name; the text "patient-dropdown" evaluates the undefined
\* names patient and dropdown, which raises NameError
EvalRaises(triggered_id) == triggered_id = DropdownChange
EvalIndex(triggered_id) == triggered_id

\* next(i for i, btn in enumerate(button_ids) if btn['index'] == part);
\* 0 when the generator is exhausted (next raises StopIteration)
NextIndex(part) ==
    IF \E i \in DOMAIN button_ids : button_ids[i] = part
    THEN CHOOSE i \in DOMAIN button_ids :
            /\ button_ids[i] = part
            /\ \A j \in 1..(i - 1) : button_ids[j] # part
    ELSE 0

-----------------------------------------------------------------------------
(* List helpers *)

\* x in list
In(x, list) == \E k \in DOMAIN list : list[k] = x

\* list.remove(x): drops the first occurrence (callers test membership first)
Remove(list, x) ==
    LET k == CHOOSE k \in DOMAIN list :
                 list[k] = x /\ \A j \in 1..(k - 1) : list[j] # x
    IN  SubSeq(list, 1, k - 1) \o SubSeq(list, k + 1, Len(list))

ToSet(list) == {list[k] : k \in DOMAIN list}

-----------------------------------------------------------------------------
(* The toggle step of update_charts *)

\* `style and ...`: None is falsy, a style dict is truthy
Truthy(style) == style # None

\* style.get('backgroundColor') raises AttributeError on None
GetRaises(style) == style = None

\* the test without the guard `style and`
StyleRaises_Unguarded(style) == GetRaises(style)

\* whether the test of one style raises: .get is evaluated only behind the
\* guard `style and`
StyleRaises(style) == Truthy(style) /\ GetRaises(style)

\* every button that carries a style decoded as selected
IsSelectedStyle_AnyStyle(style) == Truthy(style)

\* `style and style.get('backgroundColor') == '#3498db'`
IsSelectedStyle(style) == Truthy(style) /\ style = selected_style

\* the loop that rebuilds currently_selected from current_styles
RECURSIVE DecodeFrom(_, _)
DecodeFrom(current_styles, i) ==
    IF i > Len(current_styles) THEN <<>>
    ELSE (IF IsSelectedStyle(current_styles[i]) THEN <<i>> ELSE <<>>)
         \o DecodeFrom(current_styles, i + 1)

DecodeStyles(current_styles) == DecodeFrom(current_styles, 1)

\* a click on an unselected button replaces the selection
ToggleLogic_Replace(currently_selected, triggered_index) ==
    IF In(triggered_index, currently_selected)
    THEN Remove(currently_selected, triggered_index)
    ELSE <<triggered_index>>

\* a click on an unselected part leaves Total selected
ToggleLogic_KeepsTotal(currently_selected, triggered_index) ==
    IF In(triggered_index, currently_selected)
    THEN Remove(currently_selected, triggered_index)
    ELSE IF button_ids[triggered_index] = "Total"
         THEN <<triggered_index>>
         ELSE Append(currently_selected, triggered_index)

\* a click on Total adds it to the selection
ToggleLogic_TotalAccumulates(currently_selected, triggered_index) ==
    IF In(triggered_index, currently_selected)
    THEN Remove(currently_selected, triggered_index)
    ELSE LET total_index == NextIndex("Total")
             without == IF In(total_index, currently_selected)
                        THEN Remove(currently_selected, total_index)
                        ELSE currently_selected
         IN  Append(without, triggered_index)

\* a click on a selected button clears the selection
ToggleLogic_ClearOnDeselect(currently_selected, triggered_index) ==
    IF In(triggered_index, currently_selected)
    THEN <<>>
    ELSE IF button_ids[triggered_index] = "Total"
         THEN <<triggered_index>>
         ELSE LET total_index == NextIndex("Total")
                  without == IF In(total_index, currently_selected)
                             THEN Remove(currently_selected, total_index)
                             ELSE currently_selected
              IN  Append(without, triggered_index)

\* the if/else under "# Toggle logic"
ToggleLogic(currently_selected, triggered_index) ==
    IF In(triggered_index, currently_selected)
    THEN Remove(currently_selected, triggered_index)
    ELSE IF button_ids[triggered_index] = "Total"
         THEN <<triggered_index>>
         ELSE LET total_index == NextIndex("Total")
                  without == IF In(total_index, currently_selected)
                             THEN Remove(currently_selected, total_index)
                             ELSE currently_selected
              IN  Append(without, triggered_index)

\* without the fallback
DefaultToTotal_NoFallback(currently_selected) == currently_selected

\* the fallback to the first button instead of Total
DefaultToTotal_FirstButton(currently_selected) ==
    IF currently_selected = <<>> THEN <<1>> ELSE currently_selected

\* "# If nothing selected, default to Total"
DefaultToTotal(currently_selected) ==
    IF currently_selected = <<>> THEN <<NextIndex("Total")>> ELSE currently_selected

\* lines 209-247: the selection update_charts computes, or the exception it
\* raises on the way
\* currently_selected is the list decoded at line 222, toggled is the list
\* at line 238 and selected_indices the one at line 250
StepRaised(exc) ==
    [raised |-> exc, currently_selected |-> <<>>, toggled |-> <<>>,
     selected_indices |-> <<>>]

Toggled(currently_selected, toggled) ==
    [raised |-> "", currently_selected |-> currently_selected,
     toggled |-> toggled, selected_indices |-> DefaultToTotal(toggled)]

SelectStep(triggered_id, current_styles) ==
    IF triggered_id # InitialCall
    THEN IF EvalRaises(triggered_id) THEN StepRaised("NameError")
         ELSE IF NextIndex(EvalIndex(triggered_id)) = 0 THEN StepRaised("StopIteration")
         ELSE IF \E i \in DOMAIN current_styles : StyleRaises(current_styles[i])
         THEN StepRaised("AttributeError")
         ELSE Toggled(DecodeStyles(current_styles),
                      ToggleLogic(DecodeStyles(current_styles),
                                  NextIndex(EvalIndex(triggered_id))))
    ELSE [raised |-> "", currently_selected |-> <<>>, toggled |-> <<>>,
          selected_indices |-> <<NextIndex("Total")>>]

\* the styles shifted by one button
NewStyles_OffByOne(selected_indices) ==
    [i \in DOMAIN button_ids |->
        IF In(i - 1, selected_indices) THEN selected_style ELSE unselected_style]

\* lines 252-286: one style per button, the selected style for the selected indices
NewStyles(selected_indices) ==
    [i \in DOMAIN button_ids |->
        IF In(i, selected_indices) THEN selected_style ELSE unselected_style]

-----------------------------------------------------------------------------
(* The data: rows of master_dexa_data.csv as load_data returns them *)

Row(p, d, b, f, l) == [patient |-> p, date |-> d, part |-> b, fat |-> f, lean |-> l]

\* string order of the names that occur in the data
PatientOrder == <<"Ann", "Bob", "Cy">>
PartOrder == <<"Android", "Gynoid", "Left Arm", "Left Leg",
               "Right Arm", "Right Leg", "Total", "Trunk">>

Rank(order, name) == CHOOSE k \in DOMAIN order : order[k] = name

\* Ann has two scans of every part; Bob has one scan of three parts, among
\* them a Left Arm row without fat; the rows are in file order, not sorted
MasterData ==
    << Row("Ann", 2, "Total", 30000, 20000),   Row("Ann", 1, "Total", 3000, 27000),
       Row("Bob", 1, "Total", 9000, 30000),    Row("Ann", 1, "Left Arm", 1000, 3000),
       Row("Ann", 2, "Left Arm", 1200, 3000),  Row("Ann", 1, "Right Arm", 1100, 3100),
       Row("Ann", 2, "Right Arm", 1300, 3100), Row("Bob", 1, "Left Arm", 0, 2500),
       Row("Ann", 2, "Left Leg", 4000, 9000),  Row("Ann", 1, "Left Leg", 4100, 9000),
       Row("Ann", 1, "Right Leg", 4200, 9100), Row("Ann", 2, "Right Leg", 4300, 9100),
       Row("Ann", 1, "Android", 700, 3500),    Row("Ann", 2, "Android", 800, 3500),
       Row("Bob", 1, "Android", 900, 3600),    Row("Ann", 1, "Gynoid", 1500, 5000),
       Row("Ann", 2, "Gynoid", 1600, 5000),    Row("Ann", 1, "Trunk", 8000, 15000) >>

\* a table whose first patient has a Total row without fat
ZeroFatData ==
    << Row("Ann", 1, "Total", 0, 27000), Row("Ann", 1, "Gynoid", 1500, 5000),
       Row("Bob", 1, "Total", 9000, 30000), Row("Ann", 1, "Left Leg", 4100, 9000) >>

Datasets == {MasterData, ZeroFatData}

\* the masses of the one-row tables, a missing mass (0 g) among them
Grams == (0..MaxGrams) \cup {3000, 20000, 27000, 30000}
RatioDatasets ==
    { <<Row("Ann", 1, "Total", f, l), Row("Bob", 1, "Total", l, f)>> :
        f \in Grams, l \in Grams }

\* sorted(df["Patient Name"].dropna().unique())
PatientOptions(data) ==
    LET names == {data[k].patient : k \in DOMAIN data}
        n == Cardinality(names)
    IN  [k \in 1..n |->
            CHOOSE p \in names :
                Cardinality({q \in names :
                    Rank(PatientOrder, q) < Rank(PatientOrder, p)}) = k - 1]

\* the dropdown's initial value (line 119)
InitialPatient(data) ==
    IF data # <<>> THEN PatientOptions(data)[1] ELSE None

-----------------------------------------------------------------------------
(* The record filter *)

\* row a sorts before row b under sort_values(['Scan Date', 'Body Part'])
KeyLess(a, b) ==
    \/ a.date < b.date
    \/ a.date = b.date /\ Rank(PartOrder, a.part) < Rank(PartOrder, b.part)

\* insert one row behind the rows whose key is not greater (stable)
RECURSIVE Insert(_, _)
Insert(sorted, r) ==
    IF sorted = <<>> THEN <<r>>
    ELSE IF KeyLess(r, Head(sorted)) THEN <<r>> \o sorted
    ELSE <<Head(sorted)>> \o Insert(Tail(sorted), r)

RECURSIVE SortValues(_)
SortValues(rows) ==
    IF rows = <<>> THEN <<>>
    ELSE Insert(SortValues(SubSeq(rows, 1, Len(rows) - 1)), rows[Len(rows)])

\* the matching rows in the order of the table
FilterRows_Unsorted(data, selected_patient, selected_parts) ==
    SelectSeq(data, LAMBDA r :
        /\ In(r.part, selected_parts)
        /\ (selected_patient # None => r.patient = selected_patient))

\* lines 289-295
FilterRows(data, selected_patient, selected_parts) ==
    LET Keep(r) ==
            /\ In(r.part, selected_parts)
            /\ (selected_patient # None => r.patient = selected_patient)
    IN  SortValues(SelectSeq(data, Keep))

-----------------------------------------------------------------------------
(* format_ratio.  fat and lean are whole grams, so fat / lean is the       *)
(* rational fat/lean; the masses reach the function as floating-point      *)
(* scalars of the table, whose division by zero gives inf or nan, not an   *)
(* exception.                                                              *)

\* truncation instead of rounding
RoundHalfEven_Truncate(n, d) == n \div d

\* round(n / d) for n >= 0, d > 0: to the nearest integer, ties to even
RoundHalfEven(n, d) ==
    LET q == n \div d
        r == n % d
    IN  IF 2 * r < d THEN q
        ELSE IF 2 * r > d THEN q + 1
        ELSE IF q % 2 = 0 THEN q ELSE q + 1

\* int(round(1 / ratio)) if ratio < 1 else 1, for fat > 0 and lean > 0
Denominator(fat, lean) ==
    IF fat < lean THEN RoundHalfEven(lean, fat) ELSE 1

\* round(ratio * denominator, 1), in tenths
NumeratorTenths(fat, lean) ==
    RoundHalfEven(10 * fat * Denominator(fat, lean), lean)

\* f"{x:.1f}" of x = tenths / 10
OneDecimal(tenths) == ToString(tenths \div 10) \o "." \o ToString(tenths % 10)

\* ratio is 0.0 < 1, 1 / ratio is inf, and round(inf) raises OverflowError
FormatRatioRaises(fat, lean) == fat = 0 /\ lean > 0

format_ratio(fat, lean) ==
    IF lean = 0
    THEN (IF fat = 0 THEN "nan" ELSE "inf") \o ":1"
    ELSE OneDecimal(NumeratorTenths(fat, lean)) \o ":" \o ToString(Denominator(fat, lean))

-----------------------------------------------------------------------------
(* The figures and the stats card *)

\* filtered_df[filtered_df['Body Part'] == part]
PartData(rows, part) == SelectSeq(rows, LAMBDA r : r.part = part)

\* the columns of a frame
Dates(rows) == [k \in DOMAIN rows |-> rows[k].date]
Fats(rows) == [k \in DOMAIN rows |-> rows[k].fat]
Leans(rows) == [k \in DOMAIN rows |-> rows[k].lean]

\* part_data['Fat (g)'] / part_data['Lean (g)'], elementwise
RatioValue(r) ==
    [fat |-> r.fat, lean |-> r.lean,
     kind |-> IF r.lean # 0 THEN "finite" ELSE IF r.fat = 0 THEN "nan" ELSE "inf"]

\* the fat trace and the lean trace of one part
MassTraces(part, part_data) ==
    [name |-> part, x |-> Dates(part_data),
     fat |-> Fats(part_data), lean |-> Leans(part_data)]

\* lines 314-341: a fat trace and a lean trace per selected part
MainFig(filtered_df, selected_parts) ==
    [i \in DOMAIN selected_parts |->
        MassTraces(selected_parts[i], PartData(filtered_df, selected_parts[i]))]

\* lines 380-393: a ratio trace per selected part
RatioTrace(part, part_data) ==
    [name |-> part, x |-> Dates(part_data),
     y |-> [k \in DOMAIN part_data |-> RatioValue(part_data[k])]]

RatioFig(filtered_df, selected_parts) ==
    [i \in DOMAIN selected_parts |->
        RatioTrace(selected_parts[i], PartData(filtered_df, selected_parts[i]))]

\* filtered_df['Scan Date'].max()
LatestDate(filtered_df) ==
    CHOOSE d \in {filtered_df[k].date : k \in DOMAIN filtered_df} :
        \A k \in DOMAIN filtered_df : filtered_df[k].date <= d

\* filtered_df[filtered_df['Scan Date'] == latest_date]
LatestData(filtered_df) ==
    LET latest_date == LatestDate(filtered_df)
    IN  SelectSeq(filtered_df, LAMBDA r : r.date = latest_date)

\* the (fat, lean) pairs the stats card loop passes to format_ratio
RECURSIVE StatsInputs(_, _)
StatsInputs(latest_data, selected_parts) ==
    IF selected_parts = <<>> THEN <<>>
    ELSE LET part_data == PartData(latest_data, Head(selected_parts))
         IN  (IF part_data # <<>> THEN <<part_data[1]>> ELSE <<>>)
             \o StatsInputs(latest_data, Tail(selected_parts))

\* lines 438-472: one entry per selected part that has a row of the latest date
StatsEntries(inputs) ==
    [k \in DOMAIN inputs |->
        [part  |-> inputs[k].part,
         fat   |-> inputs[k].fat,
         lean  |-> inputs[k].lean,
         ratio |-> format_ratio(inputs[k].fat, inputs[k].lean)]]

StatsCard(filtered_df, selected_parts) ==
    StatsEntries(StatsInputs(LatestData(filtered_df), selected_parts))

EntriesRaise(inputs) ==
    \E k \in DOMAIN inputs : FormatRatioRaises(inputs[k].fat, inputs[k].lean)

StatsCardRaises(filtered_df, selected_parts) ==
    EntriesRaise(StatsInputs(LatestData(filtered_df), selected_parts))

-----------------------------------------------------------------------------
(* update_charts as a whole.  The record of an invocation holds its inputs, *)
(* the locals of the toggle step, and the exception it raised or the four   *)
(* outputs it returned.                                                     *)

\* selected_parts (line 250)
SelectedParts(selected_indices) ==
    [k \in DOMAIN selected_indices |-> button_ids[selected_indices[k]]]

\* lines 202-250: the invocation once the selection is computed
Selected(s, triggered_id, selected_patient, current_styles, step) ==
    [session |-> s, triggered |-> triggered_id,
     selected_patient |-> selected_patient,
     current_styles |-> current_styles,
     currently_selected |-> step.currently_selected,
     toggled |-> step.toggled,
     selected_indices |-> step.selected_indices,
     selected_parts |-> SelectedParts(step.selected_indices),
     raised |-> step.raised, filtered_df |-> <<>>, title |-> "",
     main_fig |-> <<>>, ratio_fig |-> <<>>, stats_card |-> <<>>,
     new_styles |-> <<>>]

\* lines 297-474: the early return on no data, or the figures and the card
Outputs(inv, filtered_df) ==
    IF filtered_df = <<>>
    THEN [inv EXCEPT !.title = "No data available",
                     !.new_styles = NewStyles(inv.selected_indices)]
    ELSE IF StatsCardRaises(filtered_df, inv.selected_parts)
    THEN [inv EXCEPT !.raised = "OverflowError", !.filtered_df = filtered_df]
    ELSE [inv EXCEPT !.filtered_df = filtered_df,
                     !.title = "Fat Mass & Lean Mass Trends",
                     !.main_fig = MainFig(filtered_df, inv.selected_parts),
                     !.ratio_fig = RatioFig(filtered_df, inv.selected_parts),
                     !.stats_card = StatsCard(filtered_df, inv.selected_parts),
                     !.new_styles = NewStyles(inv.selected_indices)]

\* lines 252-474 behind the toggle step
Render(inv) ==
    IF inv.raised # "" THEN inv
    ELSE Outputs(inv, FilterRows(df, inv.selected_patient, inv.selected_parts))

update_charts(s, triggered_id, selected_patient, current_styles) ==
    Render(Selected(s, triggered_id, selected_patient, current_styles,
                    SelectStep(triggered_id, current_styles)))

Returned(res) == res.raised = ""

\* the returned styles applied to the buttons of every session, as if the
\* selection were kept process-wide
Invoke_Shared(s, triggered_id, selected_patient) ==
    /\ result' = update_charts(s, triggered_id, selected_patient, styles[s])
    /\ styles' = IF Returned(result') THEN [t \in DOMAIN styles |-> result'.new_styles]
                 ELSE styles
    /\ rendered' = [rendered EXCEPT ![s] = rendered[s] \/ Returned(result')]

\* one invocation for session s: the framework applies the outputs of a
\* callback that returned and none of one that raised
Invoke(s, triggered_id, selected_patient) ==
    /\ result' = update_charts(s, triggered_id, selected_patient, styles[s])
    /\ styles' = IF Returned(result') THEN [styles EXCEPT ![s] = result'.new_styles]
                 ELSE styles
    /\ rendered' = [rendered EXCEPT ![s] = rendered[s] \/ Returned(result')]

Sessions == DOMAIN styles

\* page load: the initial call, triggered by "."
FirstRender(s) ==
    /\ ~called[s]
    /\ Invoke(s, InitialCall, patient[s])
    /\ called' = [called EXCEPT ![s] = TRUE]
    /\ UNCHANGED <<df, patient>>

\* a click on the button of a body part
ClickButton(s, part) ==
    /\ called[s]
    /\ Invoke(s, part, patient[s])
    /\ UNCHANGED <<df, patient, called>>

\* the dropdown is set to another patient
ChangePatient(s, p) ==
    /\ called[s]
    /\ p # patient[s]
    /\ patient' = [patient EXCEPT ![s] = p]
    /\ Invoke(s, DropdownChange, p)
    /\ UNCHANGED <<df, called>>

NoResult ==
    [session |-> 0, triggered |-> "", selected_patient |-> None,
     current_styles |-> <<>>, currently_selected |-> <<>>, toggled |-> <<>>,
     selected_indices |-> <<>>, selected_parts |-> <<>>, raised |-> "",
     filtered_df |-> <<>>, title |-> "", main_fig |-> <<>>,
     ratio_fig |-> <<>>, stats_card |-> <<>>, new_styles |-> <<>>]

\* the page as layout() builds it for the given sessions, before any callback
Layout(data, sessions) ==
    /\ df = data
    /\ styles = [s \in sessions |->
                    [i \in DOMAIN button_ids |-> create_button(button_ids[i])]]
    /\ patient = [s \in sessions |-> InitialPatient(data)]
    /\ called = [s \in sessions |-> FALSE]
    /\ rendered = [s \in sessions |-> FALSE]
    /\ result = NoResult

Init == \E data \in Datasets : Layout(data, {1})

Next ==
    \E s \in Sessions :
        \/ FirstRender(s)
        \/ \E part \in Universe : ClickButton(s, part)
        \/ \E part \in UnknownParts : ClickButton(s, part)
        \/ \E k \in DOMAIN PatientOptions(df) : ChangePatient(s, PatientOptions(df)[k])

Spec == Init /\ [][Next]_vars

\* any style list may come in as the State of the buttons
StyleValues == {None, unselected_style, selected_style}

InitStyles ==
    /\ df = MasterData
    /\ styles \in [{1} -> [DOMAIN button_ids -> StyleValues]]
    /\ patient = [s \in {1} |-> InitialPatient(MasterData)]
    /\ called \in [{1} -> BOOLEAN]
    /\ rendered = [s \in {1} |-> FALSE]
    /\ result = NoResult

SpecStyles == InitStyles /\ [][Next]_vars

\* the patient argument over its whole domain: a name of the table, or no
\* value
PatientInputs(data) ==
    {PatientOptions(data)[k] : k \in DOMAIN PatientOptions(data)} \cup {None}

InitFilter ==
    \E data \in Datasets : \E p \in PatientInputs(data) :
        /\ df = data
        /\ styles = [s \in {1} |->
                        [i \in DOMAIN button_ids |-> create_button(button_ids[i])]]
        /\ patient = [s \in {1} |-> p]
        /\ called = [s \in {1} |-> FALSE]
        /\ rendered = [s \in {1} |-> FALSE]
        /\ result = NoResult

SpecFilter == InitFilter /\ [][Next]_vars

\* one-row-per-patient tables over the enumerated masses
InitRatio == \E data \in RatioDatasets : Layout(data, {1})

\* the Total button alone shows every row of such a table
NextRatio ==
    \E s \in Sessions :
        \/ FirstRender(s)
        \/ ClickButton(s, "Total")
        \/ \E k \in DOMAIN PatientOptions(df) : ChangePatient(s, PatientOptions(df)[k])

SpecRatio == InitRatio /\ [][NextRatio]_vars

\* two sessions of the page in one server process, on the same table
InitSessions == Layout(MasterData, {1, 2})

\* each session renders and clicks on its own; four buttons give every
\* kind of toggle
NextSessions ==
    \E s \in Sessions :
        \/ FirstRender(s)
        \/ \E part \in {"Total", "Left Arm", "Right Arm", "Left Leg"} :
              ClickButton(s, part)

SpecSessions == InitSessions /\ [][NextSessions]_vars

-----------------------------------------------------------------------------
(* The benchmark page, dexa_dashboard_saved.py.  A mass is a whole number  *)
(* of tenths of a gram (1005 stands for 100.5 g), so that the quotients    *)
(* the page computes are exact rationals.                                  *)

BenchmarkRow(p, d, fat, median) ==
    [patient |-> p, date |-> d, part |-> "Total",
     TotalBodyFat_g |-> fat, NHANES_Median_FatMass_g |-> median]

\* the fat masses of a first and of a latest scan: small ones, pairs that
\* differ by exactly 2 %, by less and by more
BenchmarkFats == (0..MaxGrams) \cup {49, 50, 51, 950, 980, 1000, 1005, 1020}

BenchmarkMedians == {0, 100, 300}

\* Ann has three scans, Bob two and Cy one; the rows are in the order in
\* which line 16 leaves them, by scan date
BenchmarkTable(first, latest, median) ==
    << BenchmarkRow("Ann", 1, first, median), BenchmarkRow("Bob", 1, 1000, 100),
       BenchmarkRow("Cy", 1, 500, 100),       BenchmarkRow("Ann", 2, 700, 100),
       BenchmarkRow("Bob", 2, 1005, 200),     BenchmarkRow("Ann", 3, latest, 200) >>

BenchmarkDatasets ==
    { BenchmarkTable(first, latest, median) :
        first \in BenchmarkFats, latest \in BenchmarkFats, median \in BenchmarkMedians }

\* insert one row behind the rows whose date is not later
RECURSIVE InsertByDate(_, _)
InsertByDate(sorted, r) ==
    IF sorted = <<>> THEN <<r>>
    ELSE IF r.date < Head(sorted).date THEN <<r>> \o sorted
    ELSE <<Head(sorted)>> \o InsertByDate(Tail(sorted), r)

\* sort_values("Scan Date") of rows whose dates differ
RECURSIVE SortByDate(_)
SortByDate(rows) ==
    IF rows = <<>> THEN <<>>
    ELSE InsertByDate(SortByDate(SubSeq(rows, 1, Len(rows) - 1)), rows[Len(rows)])

\* line 200
PatientDf(data, patient_name) ==
    SortByDate(SelectSeq(data, LAMBDA r : r.patient = patient_name))

abs(n) == IF n < 0 THEN 0 - n ELSE n

\* a change of exactly 2 % counted as stable
TrendText_Inclusive(first, latest) ==
    IF first # 0 /\ 100 * abs(latest - first) <= 2 * abs(first) THEN "Stable"
    ELSE IF latest - first < 0 THEN "Decreasing"
    ELSE "Increasing"

\* lines 289-304.  fat_change_pct is (latest - first) / first * 100; for
\* first = 0 the division of the table's floating-point scalars gives inf or
\* nan, neither of which is less than 2
TrendText(first, latest) ==
    IF first # 0 /\ 100 * abs(latest - first) < 2 * abs(first) THEN "Stable"
    ELSE IF latest - first < 0 THEN "Decreasing"
    ELSE "Increasing"

\* line 371: the median series (the division by 1000 is a change of unit)
median_values(patient_df) ==
    [k \in DOMAIN patient_df |-> patient_df[k].NHANES_Median_FatMass_g]

\* the band 15 % wide instead of 15 % above
upper_bound_Width(medians) == [k \in DOMAIN medians |-> 15 * medians[k]]

\* lines 372-373, in hundredths of the unit of the median series
upper_bound(medians) == [k \in DOMAIN medians |-> 115 * medians[k]]
lower_bound(medians) == [k \in DOMAIN medians |-> 85 * medians[k]]

\* seq[::-1]
Reversed(seq) == [k \in DOMAIN seq |-> seq[Len(seq) + 1 - k]]

\* lines 375-384: the outline of the band, along the upper bound and back
\* along the lower one
BandTrace(dates, upper, lower) ==
    [x |-> dates \o Reversed(dates), y |-> upper \o Reversed(lower)]

\* the outputs before the table is looked at
BenchmarkOutputs(patient_name, message) ==
    [page |-> "benchmark", patient_name |-> patient_name, message |-> message,
     scans |-> 0, first |-> 0, latest |-> 0, trend_text |-> "",
     median_values |-> <<>>, upper_bound |-> <<>>, lower_bound |-> <<>>,
     band |-> BandTrace(<<>>, <<>>, <<>>)]

\* lines 287-343: the progress card
ProgressCard(out, patient_df) ==
    IF Len(patient_df) > 1
    THEN [out EXCEPT !.trend_text = TrendText(out.first, out.latest)]
    ELSE [out EXCEPT !.trend_text = "Baseline Scan"]

\* lines 215-217 and 370-384
BenchmarkFigure(out, patient_df, medians) ==
    [out EXCEPT !.scans = Len(patient_df),
                !.first = patient_df[1].TotalBodyFat_g,
                !.latest = patient_df[Len(patient_df)].TotalBodyFat_g,
                !.median_values = medians,
                !.upper_bound = upper_bound(medians),
                !.lower_bound = lower_bound(medians),
                !.band = BandTrace(Dates(patient_df), upper_bound(medians),
                                   lower_bound(medians))]

BenchmarkCards(patient_name, patient_df) ==
    IF patient_df = <<>> THEN BenchmarkOutputs(patient_name, "No data available")
    ELSE ProgressCard(BenchmarkFigure(BenchmarkOutputs(patient_name, ""),
                                      patient_df, median_values(patient_df)),
                      patient_df)

update_benchmark_chart(patient_name) ==
    IF patient_name = None THEN BenchmarkOutputs(patient_name, "Select a patient")
    ELSE BenchmarkCards(patient_name, PatientDf(df, patient_name))

\* the page's only callback has run for session s
BenchmarkInvoke(s, patient_name) ==
    /\ result' = update_benchmark_chart(patient_name)
    /\ rendered' = [rendered EXCEPT ![s] = TRUE]
    /\ UNCHANGED <<df, styles>>

\* page load: the callback runs with the dropdown's initial value
BenchmarkFirstRender(s) ==
    /\ ~called[s]
    /\ BenchmarkInvoke(s, patient[s])
    /\ called' = [called EXCEPT ![s] = TRUE]
    /\ UNCHANGED patient

\* the dropdown is set to another patient
BenchmarkChangePatient(s, p) ==
    /\ called[s]
    /\ p # patient[s]
    /\ patient' = [patient EXCEPT ![s] = p]
    /\ BenchmarkInvoke(s, p)
    /\ UNCHANGED called

\* the page as its layout builds it (lines 29-176): no buttons
BenchmarkLayout(data, sessions) ==
    /\ df = data
    /\ styles = [s \in sessions |-> <<>>]
    /\ patient = [s \in sessions |-> InitialPatient(data)]
    /\ called = [s \in sessions |-> FALSE]
    /\ rendered = [s \in sessions |-> FALSE]
    /\ result = BenchmarkOutputs(None, "")

InitBenchmark == \E data \in BenchmarkDatasets : BenchmarkLayout(data, {1})

NextBenchmark ==
    \E s \in Sessions :
        \/ BenchmarkFirstRender(s)
        \/ \E k \in DOMAIN PatientOptions(df) :
              BenchmarkChangePatient(s, PatientOptions(df)[k])

SpecBenchmark == InitBenchmark /\ [][NextBenchmark]_vars

-----------------------------------------------------------------------------
(* The overview page, overview.py *)

\* a row of master_dexa_data.csv: Total Mass (kg) and Lean (g)
MasterRow(p, d, b, mass, lean) ==
    [patient |-> p, date |-> d, part |-> b, mass |-> mass, lean |-> lean]

\* a row of composition_indices.csv: Total Body Fat (%) and BMI
CompositionRow(p, d, fat_pct, bmi) ==
    [patient |-> p, date |-> d, fat_pct |-> fat_pct, bmi |-> bmi]

\* the readings of two consecutive scans
Readings == 0..MaxGrams

\* Ann has two scans: her weight and body fat go from `previous` to
\* `current`, her lean mass and BMI the other way; Bob has one scan; Cy has
\* no Total row.  Both tables are in the order in which load_data sorts them
OverviewTables(previous, current) ==
    [master |->
        << MasterRow("Ann", 1, "Total", previous, current),
           MasterRow("Ann", 1, "Trunk", 1, 1),
           MasterRow("Bob", 1, "Total", 5, 5),
           MasterRow("Cy", 1, "Trunk", 2, 2),
           MasterRow("Ann", 2, "Total", current, previous) >>,
     composition |->
        << CompositionRow("Ann", 1, previous, current),
           CompositionRow("Bob", 1, 5, 5),
           CompositionRow("Cy", 1, 3, 3),
           CompositionRow("Ann", 2, current, previous) >>]

OverviewDatasets ==
    { OverviewTables(previous, current) :
        previous \in Readings, current \in Readings }

\* equal readings shown as a fall
get_trend_symbol_NoFlat(current, previous) ==
    IF current > previous THEN "↑" ELSE "↓"

\* lines 27-28
get_trend_symbol(current, previous) ==
    IF current > previous THEN "↑"
    ELSE IF current < previous THEN "↓"
    ELSE "→"

\* the flag ignored
get_trend_color_IgnoresFlag(current, previous, lower_is_better) ==
    IF current > previous THEN "#27ae60"
    ELSE IF current < previous THEN "#e74c3c"
    ELSE "#95a5a6"

\* lines 30-36
get_trend_color(current, previous, lower_is_better) ==
    IF current > previous
    THEN (IF ~lower_is_better THEN "#27ae60" ELSE "#e74c3c")
    ELSE IF current < previous
    THEN (IF ~lower_is_better THEN "#e74c3c" ELSE "#27ae60")
    ELSE "#95a5a6"

\* one box of the key metrics banner: the trend line under the big number
TrendCard(label, current, previous, lower_is_better) ==
    [label |-> label, current |-> current, previous |-> previous,
     lower_is_better |-> lower_is_better,
     symbol |-> get_trend_symbol(current, previous),
     color |-> get_trend_color(current, previous, lower_is_better)]

\* lines 184-236
KeyMetrics(latest_row, prev_row, latest_comp, prev_comp) ==
    << TrendCard("Current Weight", latest_row.mass, prev_row.mass, FALSE),
       TrendCard("Body Fat", latest_comp.fat_pct, prev_comp.fat_pct, TRUE),
       TrendCard("Lean Mass", latest_row.lean, prev_row.lean, FALSE),
       TrendCard("BMI", latest_comp.bmi, prev_comp.bmi, FALSE) >>

\* lines 171 and 174
TotalDf(master, selected_patient) ==
    SortByDate(SelectSeq(master,
        LAMBDA r : r.patient = selected_patient /\ r.part = "Total"))

\* line 172
PatientCompositionDf(composition, selected_patient) ==
    SelectSeq(composition, LAMBDA r : r.patient = selected_patient)

\* rows.iloc[-2] if len(rows) > 1 else latest (lines 180-181)
PrevOf(rows, latest) ==
    IF Len(rows) > 1 THEN rows[Len(rows) - 1] ELSE latest

OverviewOutputs(selected_patient, raised, key_metrics) ==
    [page |-> "overview", selected_patient |-> selected_patient,
     raised |-> raised, key_metrics |-> key_metrics]

\* lines 176-236 for rows that exist
OverviewMetrics(selected_patient, total_df, latest_row, patient_composition_df) ==
    OverviewOutputs(selected_patient, "",
        KeyMetrics(latest_row, PrevOf(total_df, latest_row),
                   patient_composition_df[Len(patient_composition_df)],
                   PrevOf(patient_composition_df,
                          patient_composition_df[Len(patient_composition_df)])))

\* lines 175-177: .iloc[0] and .iloc[-1] raise IndexError on no rows
OverviewCards(selected_patient, total_df, patient_composition_df) ==
    IF total_df = <<>> \/ patient_composition_df = <<>>
    THEN OverviewOutputs(selected_patient, "IndexError", <<>>)
    ELSE OverviewMetrics(selected_patient, total_df, LatestData(total_df)[1],
                         patient_composition_df)

update_page_content(selected_patient) ==
    OverviewCards(selected_patient, TotalDf(df.master, selected_patient),
                  PatientCompositionDf(df.composition, selected_patient))

\* the page's only callback has run for session s
OverviewInvoke(s, selected_patient) ==
    /\ result' = update_page_content(selected_patient)
    /\ rendered' = [rendered EXCEPT ![s] = rendered[s] \/ Returned(result')]
    /\ UNCHANGED <<df, styles>>

\* page load: the callback runs with the dropdown's initial value
OverviewFirstRender(s) ==
    /\ ~called[s]
    /\ OverviewInvoke(s, patient[s])
    /\ called' = [called EXCEPT ![s] = TRUE]
    /\ UNCHANGED patient

\* the dropdown is set to another patient
OverviewChangePatient(s, p) ==
    /\ called[s]
    /\ p # patient[s]
    /\ patient' = [patient EXCEPT ![s] = p]
    /\ OverviewInvoke(s, p)
    /\ UNCHANGED called

\* the page as its layout builds it (lines 38-158): no buttons, the first
\* patient selected
OverviewLayout(data, sessions) ==
    /\ df = data
    /\ styles = [s \in sessions |-> <<>>]
    /\ patient = [s \in sessions |-> PatientOptions(data.master)[1]]
    /\ called = [s \in sessions |-> FALSE]
    /\ rendered = [s \in sessions |-> FALSE]
    /\ result = OverviewOutputs(None, "", <<>>)

InitOverview == \E data \in OverviewDatasets : OverviewLayout(data, {1})

NextOverview ==
    \E s \in Sessions :
        \/ OverviewFirstRender(s)
        \/ \E k \in DOMAIN PatientOptions(df.master) :
              OverviewChangePatient(s, PatientOptions(df.master)[k])

SpecOverview == InitOverview /\ [][NextOverview]_vars

-----------------------------------------------------------------------------
(* The loaders of the three pages.  A scan date of a file is the text      *)
(* "mm-dd-yyyy", held as its three numbers; a table holds the date as the  *)
(* number yyyymmdd, which orders dates as the calendar does.               *)

DateText(month, day, year) == [month |-> month, day |-> day, year |-> year]

\* a line of a CSV file
RawRow(p, text, b, f, l) ==
    [patient |-> p, date |-> text, part |-> b, fat |-> f, lean |-> l]

\* the lines a file is made of: two have a date that is none (month 13,
\* 30 February), two share a date, and the later year has the earlier month
RawRows ==
    { RawRow("Ann", DateText(12, 1, 2023), "Total", 3000, 27000),
      RawRow("Ann", DateText(1, 15, 2024), "Total", 3100, 27000),
      RawRow("Bob", DateText(13, 1, 2023), "Total", 9000, 30000),
      RawRow("Ann", DateText(2, 30, 2024), "Left Arm", 1000, 3000),
      RawRow("Bob", DateText(1, 15, 2024), "Left Arm", 900, 2500) }

MaxRows == 3

\* a file that can be read, and one that cannot
File(lines) == [readable |-> TRUE, lines |-> lines]
Unreadable == [readable |-> FALSE, lines |-> <<>>]

\* up to MaxRows different lines in any order
FileContents ==
    UNION { { lines \in [1..n -> RawRows] :
                \A i, j \in 1..n : lines[i] = lines[j] => i = j } : n \in 0..MaxRows }

Sources == {File(lines) : lines \in FileContents} \cup {Unreadable}

DaysInMonth(month, year) ==
    IF month = 2
    THEN (IF year % 4 = 0 /\ (year % 100 # 0 \/ year % 400 = 0) THEN 29 ELSE 28)
    ELSE IF month \in {4, 6, 9, 11} THEN 30 ELSE 31

\* the text matches format="%m-%d-%Y"
Parseable(text) ==
    /\ text.month \in 1..12
    /\ text.day \in 1..DaysInMonth(text.month, text.year)

NaT == 0 - 1

\* pd.to_datetime(..., format="%m-%d-%Y", errors="coerce") of one value
to_datetime(text) ==
    IF Parseable(text) THEN text.year * 10000 + text.month * 100 + text.day
    ELSE NaT

\* the column replaced by the parsed dates
ParseDates(lines) ==
    [k \in DOMAIN lines |-> [lines[k] EXCEPT !.date = to_datetime(lines[k].date)]]

\* without errors="coerce" a text that does not match raises ValueError
ParseRaises(lines) == \E k \in DOMAIN lines : ~Parseable(lines[k].date)

\* body_part_trend.py lines 19-27: the rows with a date, in file order;
\* any exception gives an empty table
load_data(src) ==
    IF ~src.readable THEN <<>>
    ELSE SelectSeq(ParseDates(src.lines), LAMBDA r : r.date # NaT)

\* the orders sort_values('Scan Date') may give: its default sort is not
\* stable, so rows of one date come in any order
SortedOrders(rows) ==
    { [k \in DOMAIN rows |-> rows[f[k]]] :
        f \in { g \in [DOMAIN rows -> DOMAIN rows] :
                  /\ \A i, j \in DOMAIN rows : g[i] = g[j] => i = j
                  /\ \A i, j \in DOMAIN rows :
                        i < j => rows[g[i]].date <= rows[g[j]].date } }

\* what a loader hands to its page
Loaded(loader, src, raised, rows) ==
    [page |-> "load", loader |-> loader, source |-> src,
     raised |-> raised, rows |-> rows]

\* the exception of the two loaders that catch nothing
LoadRaises(src) ==
    IF ~src.readable THEN "FileNotFoundError"
    ELSE IF ParseRaises(src.lines) THEN "ValueError"
    ELSE ""

\* body_part_trend.py line 29
LoadTrend(src) ==
    /\ df' = load_data(src)
    /\ result' = Loaded("body_part_trend", src, "", df')
    /\ UNCHANGED <<styles, patient, called, rendered>>

\* a loader that stopped with an exception: the page has no table
LoadFailed(loader, src) ==
    /\ LoadRaises(src) # ""
    /\ df' = <<>>
    /\ result' = Loaded(loader, src, LoadRaises(src), <<>>)
    /\ UNCHANGED <<styles, patient, called, rendered>>

\* a loader that sorted the given rows
LoadSorted(loader, src, rows) ==
    /\ df' \in SortedOrders(rows)
    /\ result' = Loaded(loader, src, "", df')
    /\ UNCHANGED <<styles, patient, called, rendered>>

\* overview.py lines 18-25 and 38, for master_dexa_data.csv
LoadOverview(src) ==
    IF LoadRaises(src) # "" THEN LoadFailed("overview", src)
    ELSE LoadSorted("overview", src, ParseDates(src.lines))

\* dexa_dashboard_saved.py lines 10-16
LoadBenchmark(src) ==
    IF LoadRaises(src) # "" THEN LoadFailed("dexa_dashboard_saved", src)
    ELSE LoadSorted("dexa_dashboard_saved", src,
                    SelectSeq(ParseDates(src.lines), LAMBDA r : r.part = "Total"))

\* no page imported yet
InitLoad ==
    /\ df = <<>>
    /\ styles = <<>>
    /\ patient = <<>>
    /\ called = <<>>
    /\ rendered = <<>>
    /\ result = Loaded("", File(<<>>), "", <<>>)

NextLoad ==
    \E src \in Sources :
        \/ LoadTrend(src)
        \/ LoadOverview(src)
        \/ LoadBenchmark(src)

SpecLoad == InitLoad /\ [][NextLoad]_vars

-----------------------------------------------------------------------------
(* The start of the body part page: the module is imported, which loads    *)
(* the table (line 29) and builds the layout (lines 80-190).               *)

\* lines 117-118 read df["Patient Name"] unconditionally: the table that
\* load_data returns for an unreadable file, pd.DataFrame(), has no columns
\* and the subscript raises KeyError
LayoutRaises(src) == ~src.readable

\* the import of the page for the given file; a layout that raised leaves
\* no page, hence no session
ImportPage(src) ==
    /\ "loader" \in DOMAIN result
    /\ result.loader = ""
    /\ df' = load_data(src)
    /\ result' = Loaded("body_part_trend", src,
                        IF LayoutRaises(src) THEN "KeyError" ELSE "", df')
    /\ IF LayoutRaises(src)
       THEN UNCHANGED <<styles, patient, called, rendered>>
       ELSE /\ styles' = [s \in {1} |->
                            [i \in DOMAIN button_ids |-> create_button(button_ids[i])]]
            /\ patient' = [s \in {1} |-> InitialPatient(df')]
            /\ called' = [s \in {1} |-> FALSE]
            /\ rendered' = [s \in {1} |-> FALSE]

NextStartup ==
    \/ \E src \in Sources : ImportPage(src)
    \/ \E s \in Sessions :
          \/ FirstRender(s)
          \/ ClickButton(s, "Total")
          \/ ClickButton(s, "Left Arm")

SpecStartup == InitLoad /\ [][NextStartup]_vars

-----------------------------------------------------------------------------
(* Properties *)

TotalIndex == NextIndex("Total")
NonTotal == Universe \ {"Total"}

\* the selection a style list encodes, as button indices
Encoded(current_styles) == ToSet(DecodeStyles(current_styles))

\* the selection state of a session: the buttons whose style is the selected one
SelectionState(s) == {button_ids[i] : i \in Encoded(styles[s])}

\* the toggle step of the invocation ran to its end
StepCompleted(res) == res.raised \in {"", "OverflowError"}

\* C1: once a session has been rendered, its selection state holds at least
\* one button, whatever buttons are clicked afterwards
NonEmptySelection ==
    \A s \in Sessions : rendered[s] => SelectionState(s) # {}

\* a click on the only selected non-Total button has fallen back to Total
FallbackRendered ==
    /\ Returned(result)
    /\ result.triggered \in NonTotal
    /\ result.toggled = <<>>
    /\ SelectionState(result.session) = {"Total"}

TotalExclusive ==
    \A s \in Sessions :
        "Total" \in SelectionState(s) => SelectionState(s) = {"Total"}

\* a part was added to a selection that held Total, and Total is gone
TotalEvicted ==
    /\ Returned(result)
    /\ result.triggered \in NonTotal
    /\ In(TotalIndex, result.currently_selected)
    /\ SelectionState(result.session) = {result.triggered}

\* C4: a click on a non-Total button x in selection s leaves, before the
\* fallback, s without x if x was in s, and otherwise s with x and without
\* Total; no other button changes and none is listed twice
ToggleAccumulates ==
    (result.triggered \in NonTotal /\ StepCompleted(result)) =>
        LET x == NextIndex(result.triggered)
            before == ToSet(result.currently_selected)
            after == ToSet(result.toggled)
        IN  /\ x \in before => after = before \ {x}
            /\ x \notin before => after = (before \ {TotalIndex}) \cup {x}
            /\ Len(result.toggled) = Cardinality(after)

\* a third non-Total button was added to two selected ones
ThreeCoexist ==
    /\ Returned(result)
    /\ result.triggered \in NonTotal
    /\ ~In(NextIndex(result.triggered), result.currently_selected)
    /\ Len(result.currently_selected) = 2
    /\ Cardinality(SelectionState(result.session)) = 3

\* C5: when a selected non-Total button x of a selection s of more than one
\* button is clicked and then clicked again, the second click yields s
ClickTwiceStep ==
    \A x \in NonTotal :
        (/\ result.triggered = x
         /\ Returned(result)
         /\ In(NextIndex(x), result.currently_selected)
         /\ Len(result.currently_selected) > 1
         /\ result'.triggered = x
         /\ result'.session = result.session)
            => ToSet(result'.selected_indices) = ToSet(result.currently_selected)

ClickTwiceRestores == [][ClickTwiceStep]_vars

\* a non-Total button was put back next to the buttons that stayed selected
Reselected ==
    /\ Returned(result)
    /\ result.triggered \in NonTotal
    /\ ~In(NextIndex(result.triggered), result.currently_selected)
    /\ ~In(TotalIndex, result.currently_selected)
    /\ result.currently_selected # <<>>
    /\ Cardinality(SelectionState(result.session)) = Len(result.currently_selected) + 1

\* C6: for any incoming style list, missing styles included, and any button
\* of the universe, the toggle step raises nothing and selects a non-empty
\* set of known buttons
ToggleStepNeverRaises ==
    result.triggered \in Universe =>
        /\ StepCompleted(result)
        /\ result.selected_parts # <<>>
        /\ ToSet(result.selected_parts) \subseteq Universe

\* a click was handled with a missing style in the incoming list
MissingStyleHandled ==
    /\ Returned(result)
    /\ result.triggered \in Universe
    /\ \E i \in DOMAIN result.current_styles : result.current_styles[i] = None

\* C7 as claimed: a change of the patient dropdown returns a full set of
\* outputs whose styles encode the selection the session had before
PatientChangeKeepsSelection ==
    result.triggered = DropdownChange =>
        /\ Returned(result)
        /\ result.title # ""
        /\ Encoded(result.new_styles) = Encoded(result.current_styles)

\* C8 as claimed: a toggle event for a part outside the universe raises no
\* unhandled exception and leaves the selection as it was
UnknownSelectionRejected ==
    result.triggered \in UnknownParts =>
        /\ Returned(result)
        /\ styles[result.session] = result.current_styles

\* C9: every return of update_charts carries one style per button, in button
\* order, and the selected style exactly for the buttons of the new selection
StylesProjectSelection ==
    (Returned(result) /\ result.session \in Sessions) =>
        /\ DOMAIN result.new_styles = DOMAIN button_ids
        /\ \A i \in DOMAIN button_ids :
              /\ result.new_styles[i] \in {selected_style, unselected_style}
              /\ result.new_styles[i] = selected_style
                    <=> In(button_ids[i], result.selected_parts)
        /\ styles[result.session] = result.new_styles

\* the early return carried the styles of a selection of several parts
NoDataStyled ==
    /\ Returned(result)
    /\ result.title = "No data available"
    /\ Len(result.selected_parts) >= 2
    /\ Encoded(result.new_styles) = ToSet(result.selected_indices)

\* C10: for fat > 0 and lean > 0 the card shows "numerator:denominator", the
\* denominator being 1/r rounded to the nearest integer (ties to even) when
\* r = fat/lean < 1 and 1 otherwise, and the numerator r * denominator
\* rounded to the nearest tenth; (3000, 27000) gives "1.0:9" and
\* (30000, 20000) gives "1.5:1"
RatioEntryOk(e) ==
    LET d == Denominator(e.fat, e.lean)
        t == NumeratorTenths(e.fat, e.lean)
        Abs(n) == IF n < 0 THEN 0 - n ELSE n
    IN  /\ e.ratio = OneDecimal(t) \o ":" \o ToString(d)
        /\ e.fat >= e.lean => d = 1
        /\ e.fat < e.lean =>
              /\ 2 * Abs(e.lean - d * e.fat) <= e.fat
              /\ 2 * Abs(e.lean - d * e.fat) = e.fat => d % 2 = 0
        /\ 2 * Abs(10 * e.fat * d - t * e.lean) <= e.lean
        /\ (e.fat = 3000 /\ e.lean = 27000) => e.ratio = "1.0:9"
        /\ (e.fat = 30000 /\ e.lean = 20000) => e.ratio = "1.5:1"

FormatRatioRounds ==
    \A k \in DOMAIN result.stats_card :
        LET e == result.stats_card[k]
        IN  (e.fat > 0 /\ e.lean > 0) => RatioEntryOk(e)

\* the card of a row with fat 3000 and lean 27000 reads "1.0:9"
RatioExampleShown ==
    \E k \in DOMAIN result.stats_card :
        /\ result.stats_card[k].fat = 3000
        /\ result.stats_card[k].lean = 27000
        /\ result.stats_card[k].ratio = "1.0:9"

\* C11 as claimed: a row whose lean mass is 0 is surfaced as 'no data': the
\* card shows no ratio for it, and no value of a ratio series is infinite or
\* not a number
ZeroLeanIsNoData ==
    /\ \A k \in DOMAIN result.stats_card :
          result.stats_card[k].lean = 0 => result.stats_card[k].ratio = "no data"
    /\ \A i \in DOMAIN result.ratio_fig :
          \A k \in DOMAIN result.ratio_fig[i].y :
              result.ratio_fig[i].y[k].kind = "finite"

\* C12 as claimed: when every filtered row has fat >= 0 and lean > 0, the
\* invocation raises nothing and returns a stats card with an entry
FormatRatioTotal ==
    (/\ result.filtered_df # <<>>
     /\ \A k \in DOMAIN result.filtered_df :
           result.filtered_df[k].fat >= 0 /\ result.filtered_df[k].lean > 0)
        => (Returned(result) /\ result.stats_card # <<>>)

\* C13: for a patient with more than one scan and a first fat mass above 0,
\* the label is Stable if and only if |latest - first| / first * 100 < 2, a
\* change of exactly 2 % not being stable; otherwise it is Decreasing when
\* latest < first and Increasing when latest > first; (95, 100) is
\* Decreasing and (100.5, 100) is Stable
TrendClassified ==
    (result.scans > 1 /\ result.first > 0) =>
        LET change == result.latest - result.first
            stable == 100 * abs(change) < 2 * result.first
        IN  /\ result.trend_text = "Stable" <=> stable
            /\ 100 * abs(change) = 2 * result.first => result.trend_text # "Stable"
            /\ (~stable /\ change < 0) => result.trend_text = "Decreasing"
            /\ (~stable /\ change > 0) => result.trend_text = "Increasing"
            /\ (result.latest = 950 /\ result.first = 1000)
                  => result.trend_text = "Decreasing"
            /\ (result.latest = 1005 /\ result.first = 1000)
                  => result.trend_text = "Stable"

\* a rise of exactly 2 % was labelled Increasing
ExactlyTwoPercent ==
    /\ result.scans > 1
    /\ result.first = 1000
    /\ result.latest = 1020
    /\ result.trend_text = "Increasing"

\* C14 as claimed: with a first scan of fat mass 0 the progress card carries
\* none of the three labels
ZeroBaselineFails ==
    (result.scans > 1 /\ result.first = 0) =>
        result.trend_text \notin {"Stable", "Decreasing", "Increasing"}

\* C17: the bounds of the expected range are the median series times 1.15
\* and times 0.85, element by element, in the length and order of the median
\* series; medians [100, 200] give [115, 230] and [85, 170]; a median of 0 or
\* more lies between its bounds
BandElementwise ==
    result.message = "" =>
        /\ DOMAIN result.upper_bound = DOMAIN result.median_values
        /\ DOMAIN result.lower_bound = DOMAIN result.median_values
        /\ \A i \in DOMAIN result.median_values :
              /\ result.upper_bound[i] = 115 * result.median_values[i]
              /\ result.lower_bound[i] = 85 * result.median_values[i]
              /\ result.median_values[i] >= 0 =>
                    /\ result.lower_bound[i] <= 100 * result.median_values[i]
                    /\ 100 * result.median_values[i] <= result.upper_bound[i]
        /\ result.median_values = <<100, 200>> =>
              /\ result.upper_bound = <<11500, 23000>>
              /\ result.lower_bound = <<8500, 17000>>

\* the band of a patient whose medians are 100 and 200
BandExampleDrawn ==
    /\ result.scans = 2
    /\ result.median_values = <<100, 200>>
    /\ result.upper_bound = <<11500, 23000>>
    /\ result.lower_bound = <<8500, 17000>>

\* C15: get_trend_symbol returns one of three symbols: "↑" if and only if
\* current > previous, "↓" if and only if current < previous, "→" if and only
\* if the two are equal
TrendSymbolTrichotomy ==
    \A k \in DOMAIN result.key_metrics :
        LET e == result.key_metrics[k]
        IN  /\ e.symbol \in {"↑", "↓", "→"}
            /\ e.symbol = "↑" <=> e.current > e.previous
            /\ e.symbol = "↓" <=> e.current < e.previous
            /\ e.symbol = "→" <=> e.current = e.previous

\* the banner shows a rise next to a fall
RiseAndFallShown ==
    /\ \E k \in DOMAIN result.key_metrics :
          /\ result.key_metrics[k].symbol = "↑"
          /\ result.key_metrics[k].current > result.key_metrics[k].previous
    /\ \E k \in DOMAIN result.key_metrics :
          /\ result.key_metrics[k].symbol = "↓"
          /\ result.key_metrics[k].current < result.key_metrics[k].previous

\* the colour of a direction under a flag: good is green, bad is red
SignalColour(symbol, lower_is_better) ==
    IF symbol = "→" THEN "#95a5a6"
    ELSE IF (symbol = "↓") = lower_is_better THEN "#27ae60"
    ELSE "#e74c3c"

\* C16: the colour depends on the direction and on lower_is_better only: the
\* good direction (down when lower is better, up otherwise) is '#27ae60',
\* the opposite one '#e74c3c', no change '#95a5a6' under either flag; of two
\* boxes with the same readings and opposite flags the signal colours are
\* swapped and the neutral one is the same; the colour is neutral exactly
\* when the symbol is "→"
TrendColourByDirection ==
    \A k \in DOMAIN result.key_metrics :
        LET e == result.key_metrics[k]
        IN  /\ e.color = SignalColour(e.symbol, e.lower_is_better)
            /\ e.color = "#95a5a6" <=> e.symbol = "→"
            /\ \A j \in DOMAIN result.key_metrics :
                  LET f == result.key_metrics[j]
                  IN  /\ (f.symbol = e.symbol /\ f.lower_is_better = e.lower_is_better)
                          => f.color = e.color
                      /\ (/\ f.current = e.current
                          /\ f.previous = e.previous
                          /\ f.lower_is_better # e.lower_is_better)
                          => \/ e.color = "#95a5a6" /\ f.color = "#95a5a6"
                             \/ {e.color, f.color} = {"#27ae60", "#e74c3c"}

\* a fall in weight is red while the same fall in body fat is green
FallColouredByFlag ==
    \E k, j \in DOMAIN result.key_metrics :
        /\ result.key_metrics[k].current < result.key_metrics[k].previous
        /\ result.key_metrics[j].current = result.key_metrics[k].current
        /\ result.key_metrics[j].previous = result.key_metrics[k].previous
        /\ ~result.key_metrics[k].lower_is_better
        /\ result.key_metrics[j].lower_is_better
        /\ result.key_metrics[k].color = "#e74c3c"
        /\ result.key_metrics[j].color = "#27ae60"

\* the number of rows of a table that equal r
Occurrences(rows, r) == Cardinality({k \in DOMAIN rows : rows[k] = r})

\* C18: the filtered rows are exactly the rows of the loaded table whose body
\* part is selected and, when a patient is given, whose patient is that one
\* (the matching rows of all patients when none is given), each as often as
\* the table holds it, in ascending order of (scan date, body part)
FilterExact ==
    (result.session \in Sessions /\ StepCompleted(result)) =>
        LET rows == result.filtered_df
            Matches(r) ==
                /\ r.part \in ToSet(result.selected_parts)
                /\ result.selected_patient = None
                      \/ r.patient = result.selected_patient
        IN  /\ \A k \in DOMAIN df :
                  Occurrences(rows, df[k]) =
                      IF Matches(df[k]) THEN Occurrences(df, df[k]) ELSE 0
            /\ \A k \in DOMAIN rows : Occurrences(df, rows[k]) > 0
            /\ \A k \in DOMAIN rows : k < Len(rows) =>
                  \/ rows[k].date < rows[k + 1].date
                  \/ /\ rows[k].date = rows[k + 1].date
                     /\ Rank(PartOrder, rows[k].part) <= Rank(PartOrder, rows[k + 1].part)

\* without a patient, the rows of two patients were returned for two parts
AllPatientsFiltered ==
    /\ Returned(result)
    /\ result.selected_patient = None
    /\ Len(result.selected_parts) = 2
    /\ \E k, j \in DOMAIN result.filtered_df :
          result.filtered_df[k].patient # result.filtered_df[j].patient

\* the rows of a file whose date can be parsed, in the order of the file,
\* with the date parsed
ValidRows(lines) == SelectSeq(ParseDates(lines), LAMBDA r : r.date # NaT)

\* C19 as claimed: the loader of the body part page and the loader of the
\* overview page raise nothing on a file with unparseable dates and keep
\* exactly the rows whose date can be parsed, each once; the loader that
\* does not sort keeps them in the order of the file
BadDatesDropped ==
    (result.loader \in {"body_part_trend", "overview"} /\ result.source.readable) =>
        /\ result.raised = ""
        /\ \A k \in DOMAIN result.source.lines :
              Occurrences(result.rows, ParseDates(result.source.lines)[k]) =
                  IF Parseable(result.source.lines[k].date) THEN 1 ELSE 0
        /\ Len(result.rows) = Len(ValidRows(result.source.lines))
        /\ result.loader = "body_part_trend"
              => result.rows = ValidRows(result.source.lines)

\* C20 as claimed: whatever the order of the file, the rows a loader returns
\* are in ascending order of scan date, for the loader of each page
LoadSortedByDate ==
    (result.loader # "" /\ result.raised = "") =>
        \A k \in DOMAIN result.rows : k < Len(result.rows) =>
            result.rows[k].date <= result.rows[k + 1].date

\* C21 as claimed: for a file that cannot be read the loader returns an empty
\* table, the layout is built from it without raising, and the page has its
\* session
UnreadableDegrades ==
    (/\ "loader" \in DOMAIN result
     /\ result.loader = "body_part_trend"
     /\ ~result.source.readable)
        => (result.raised = "" /\ df = <<>> /\ Sessions # {})

\* C22 as claimed, on the overview page: when the selected patient has no
\* Total row or no composition row, the callback raises nothing and returns
\* its outputs
NoRecordsHandled ==
    (/\ result.selected_patient # None
     /\ \/ TotalDf(df.master, result.selected_patient) = <<>>
        \/ PatientCompositionDf(df.composition, result.selected_patient) = <<>>)
        => result.raised = ""

\* the selection that a session alone reaches from selection S by the event
ExpectedSelection(S, event) ==
    IF event \in {InitialCall, "Total"} THEN {"Total"}
    ELSE IF event \in S
    THEN (IF S = {event} THEN {"Total"} ELSE S \ {event})
    ELSE (S \ {"Total"}) \cup {event}

\* C23: of two sessions whose events interleave in any order, an invocation
\* leaves the selection of the other session as it was and gives its own
\* session the selection that follows from that session's selection alone
IsolatedStep ==
    \A s \in Sessions :
        /\ result'.session # s => styles'[s] = styles[s]
        /\ (result'.session = s /\ Returned(result')) =>
              SelectionState(s)' = ExpectedSelection(SelectionState(s), result'.triggered)

SessionsIsolated == [][IsolatedStep]_vars

\* session 1 selected both arms after session 2 had rendered Total, which
\* session 2 still shows
SessionsDiverged ==
    /\ Returned(result)
    /\ result.session = 1
    /\ rendered[2]
    /\ SelectionState(1) = {"Left Arm", "Right Arm"}
    /\ SelectionState(2) = {"Total"}

\* C24: a click on the only selected button, Total or not, leaves the list
\* empty before the fallback and gives the selection {Total}; whenever the
\* list is empty at the fallback the selection is {Total}
EmptyFallsBackToTotal ==
    (result.triggered \in Universe /\ StepCompleted(result)) =>
        /\ ToSet(result.currently_selected) = {NextIndex(result.triggered)}
              => result.toggled = <<>>
        /\ result.toggled = <<>> =>
              /\ result.selected_parts = <<"Total">>
              /\ Returned(result) => SelectionState(result.session) = {"Total"}

\* Total was clicked while it was the only selected button
OnlyTotalReclicked ==
    /\ Returned(result)
    /\ result.triggered = "Total"
    /\ result.currently_selected = <<TotalIndex>>
    /\ result.toggled = <<>>
    /\ SelectionState(result.session) = {"Total"}

\* a list of button indices without repetition
NoDuplicates(indices) == Len(indices) = Cardinality(ToSet(indices))

\* the styles returned by an invocation decode to the selection it computed
DecodesToComputed(res) ==
    /\ ToSet(DecodeStyles(res.new_styles)) = ToSet(res.selected_indices)
    /\ NoDuplicates(DecodeStyles(res.new_styles))

\* a click of the session whose previous invocation returned decodes, at
\* lines 218-222, the selection that invocation computed, each button once
CarriedStep ==
    (/\ result.triggered # ""
     /\ Returned(result)
     /\ result'.session = result.session
     /\ result'.triggered \in Universe
     /\ StepCompleted(result'))
    => /\ ToSet(result'.currently_selected) = ToSet(result.selected_indices)
       /\ NoDuplicates(result'.currently_selected)
       /\ result'.current_styles = result.new_styles

\* C25: the styles an invocation returns decode to the selection it
\* computed, and the next click of the session decodes exactly that
\* selection from them, with no button listed twice
StyleRoundTrip ==
    /\ [](result.triggered # "" /\ Returned(result) => DecodesToComputed(result))
    /\ [][CarriedStep]_vars

\* a click decoded a selection of three buttons from the returned styles
ThreeCarried ==
    /\ result.triggered \in Universe
    /\ StepCompleted(result)
    /\ Cardinality(ToSet(result.currently_selected)) = 3
    /\ NoDuplicates(result.currently_selected)
    /\ rendered[result.session]

\* {Total} and the non-empty sets of non-Total buttons
StatedSelections == {{"Total"}} \cup ((SUBSET NonTotal) \ {{}})

\* the styles that show the selection S
StylesOf(S) ==
    [i \in DOMAIN button_ids |->
        IF button_ids[i] \in S THEN selected_style ELSE unselected_style]

\* the selection the toggle step computes for a click on x in selection S
ClickOn(S, x) == ToSet(SelectStep(x, StylesOf(S)).selected_indices)

PartsOf(indices) == {button_ids[i] : i \in indices}

\* the selections within k clicks of the given ones
RECURSIVE ClickClosure(_, _)
ClickClosure(states, k) ==
    IF k = 0 THEN states
    ELSE ClickClosure(states \cup {PartsOf(ClickOn(S, x)) : S \in states, x \in Universe},
                      k - 1)

\* the invocation returned and shows what the toggle step computes for a
\* click on x in selection S
ShownAfter(res, S, x) ==
    /\ Returned(res)
    /\ PartsOf(Encoded(res.new_styles)) = PartsOf(ClickOn(S, x))

\* a click on x in session s returns and shows the selection computed
ClickReturns(s, x) ==
    ShownAfter(update_charts(s, x, patient[s], styles[s]), SelectionState(s), x)

\* the selections the clicks lead to from {Total}
ReachedByClicks == ClickClosure({{"Total"}}, Cardinality(Universe))

\* C26: a rendered session shows {Total} or a non-empty set of non-Total
\* buttons and nothing else; the clicks on the buttons lead from {Total} to
\* every one of these selections, a first render that returns shows {Total},
\* and for the patient with a row for every button every click returns and
\* shows the selection computed, so each of them is reached
SelectionStatesExact ==
    /\ \A s \in Sessions : rendered[s] => SelectionState(s) \in StatedSelections
    /\ ReachedByClicks = StatedSelections
    /\ (result.triggered = InitialCall /\ Returned(result))
          => SelectionState(result.session) = {"Total"}
    /\ \A s \in Sessions :
          (df = MasterData /\ patient[s] = InitialPatient(df) /\ rendered[s])
             => \A x \in Universe : ClickReturns(s, x)

\* the six non-Total buttons are selected together
AllSixSelected ==
    /\ Returned(result)
    /\ result.triggered \in NonTotal
    /\ rendered[result.session]
    /\ SelectionState(result.session) = NonTotal
    /\ Cardinality(NonTotal) = 6

====
